---------------------------- MODULE Spec2Model ----------------------------
(***************************************************************************)
(* A model of the orthogonal connector router of d3-table-layout           *)
(* (src/src/orthogonal-routing.js), as src/src/table-layout.js calls it.   *)
(*                                                                         *)
(* Points are JavaScript objects: the model keeps them in an arena         *)
(* (nodes), and a reference to a point is its index in the arena; 0 is     *)
(* null/undefined.  The neighbours object of a point is the sequence of    *)
(* its <<key, reference>> entries in insertion order, which is the order   *)
(* Object.entries() walks it in.  Coordinates are integers.  The A* costs  *)
(* g, h and f are kept in tenths, so that the turn penalty 0.1 is 1.       *)
(***************************************************************************)
EXTENDS Integers, Sequences, FiniteSets, TLC

VARIABLES
    nodes,            \* the arena of point objects
    obstacleCorners,  \* this._obstacleCorners: <<tl, tr, bl, br>> per obstacle
    connectorPoints,  \* this._connectorPoints
    h,                \* this._h: horizontal segments <<a, b>>
    v,                \* this._v: vertical segments <<a, b>>
    poi,              \* this._poi
    ovg,              \* this._ovg
    dirtyAStarNodes,  \* this._dirtyAStarNodes
    last,             \* the last call and its outcome, and link.points
    hist,             \* what the caller has done so far
    layout            \* the caller's tables and link ends

vars == <<nodes, obstacleCorners, connectorPoints, h, v, poi, ovg,
          dirtyAStarNodes, last, hist, layout>>

(***************************************************************************)
(* Sequences                                                               *)
(***************************************************************************)
Last(s) == s[Len(s)]

Front(s) == SubSeq(s, 1, Len(s) - 1)

\* Array.prototype.splice(i, 1, p, q) on the 0-based index i
Splice(s, i, p, q) == SubSeq(s, 1, i) \o <<p, q>> \o SubSeq(s, i + 2, Len(s))

Range(s) == {s[i] : i \in DOMAIN s}

Abs(n) == IF n < 0 THEN -n ELSE n

(***************************************************************************)
(* Points                                                                  *)
(***************************************************************************)
\* a point object as a caller makes it: {x, y} and the optional flags
NewPoint(px, py, ho, vo) ==
    [x |-> px, y |-> py, hasNb |-> FALSE, nb |-> <<>>,
     isConnector |-> FALSE, horizontalOnly |-> ho, verticalOnly |-> vo,
     g |-> 0, h |-> 0, f |-> 0, parent |-> 0,
     visited |-> FALSE, closed |-> FALSE]

\* {x, y, neighbours: {key: q}}
NewNeighbour(px, py, key, q) ==
    [NewPoint(px, py, FALSE, FALSE) EXCEPT !.hasNb = TRUE, !.nb = <<<<key, q>>>>]

\* obj[key] of a neighbours object: the reference, or 0 for undefined
RECURSIVE NbGet(_, _)
NbGet(nb, key) ==
    IF nb = <<>> THEN 0
    ELSE IF nb[1][1] = key THEN nb[1][2]
    ELSE NbGet(Tail(nb), key)

\* obj[key] = q: an existing key keeps its place, a new key goes last
NbSet(nb, key, q) ==
    IF \E i \in DOMAIN nb : nb[i][1] = key
    THEN [i \in DOMAIN nb |-> IF nb[i][1] = key THEN <<key, q>> ELSE nb[i]]
    ELSE Append(nb, <<key, q>>)

\* p.neighbours[key] = q in the arena ns
SetNeighbour(ns, p, key, q) ==
    [ns EXCEPT ![p].nb = NbSet(ns[p].nb, key, q)]

\* Math.abs(d) < FLOAT_TOLERANCE (1e-7): on integer coordinates, d = 0
WithinTolerance(d) == Abs(d) < 1

ArePointsEqualXY(x1, y1, x2, y2) ==
    WithinTolerance(x1 - x2) /\ WithinTolerance(y1 - y2)

ArePointsEqual(ns, p1, p2) ==
    ArePointsEqualXY(ns[p1].x, ns[p1].y, ns[p2].x, ns[p2].y)

AreSegmentsConnected(ns, seg1, seg2) ==
    \/ ArePointsEqual(ns, seg1[1], seg2[1])
    \/ ArePointsEqual(ns, seg1[1], seg2[2])
    \/ ArePointsEqual(ns, seg1[2], seg2[1])
    \/ ArePointsEqual(ns, seg1[2], seg2[2])

\* 0 north, 1 east, 2 south, 3 west, -1 unknown; a difference of integers
\* is beyond FLOAT_TOLERANCE when it is not 0
DirectionXY(ax, ay, bx, by) ==
    IF bx - ax > 0 THEN 1
    ELSE IF bx - ax < 0 THEN 3
    ELSE IF by - ay > 0 THEN 2
    ELSE IF by - ay < 0 THEN 0
    ELSE -1

direction(ns, a, b) == DirectionXY(ns[a].x, ns[a].y, ns[b].x, ns[b].y)

(***************************************************************************)
(* _findInterestingSegments                                                *)
(***************************************************************************)
\* the obstacle loop: the corners are wired into a rectangle (whatever
\* neighbours they had are dropped), and the edges go to h and v
RECURSIVE WireObstacles(_, _, _)
WireObstacles(st, obstacles, i) ==
    IF i > Len(obstacles) THEN st
    ELSE
        LET tl == obstacles[i][1]
            tr == obstacles[i][2]
            bl == obstacles[i][3]
            br == obstacles[i][4]
            ns1 == [st.nodes EXCEPT ![tl].hasNb = TRUE,
                        ![tl].nb = << <<"east", tr>>, <<"south", bl>> >>]
            ns2 == [ns1 EXCEPT ![tr].hasNb = TRUE,
                        ![tr].nb = << <<"west", tl>>, <<"south", br>> >>]
            ns3 == [ns2 EXCEPT ![bl].hasNb = TRUE,
                        ![bl].nb = << <<"north", tl>>, <<"east", br>> >>]
            ns4 == [ns3 EXCEPT ![br].hasNb = TRUE,
                        ![br].nb = << <<"north", tr>>, <<"west", bl>> >>]
        IN  WireObstacles(
                [nodes |-> ns4,
                 poi |-> st.poi \o <<tl, tr, bl, br>>,
                 v |-> st.v \o << <<tl, bl>>, <<tr, br>> >>,
                 h |-> st.h \o << <<tl, tr>>, <<bl, br>> >>],
                obstacles, i + 1)

\* the nearest bottom edge above the point, starting from the area's edge
RECURSIVE NorthExtremity(_, _, _, _, _)
NorthExtremity(ns, p, obstacles, i, north) ==
    IF i > Len(obstacles) THEN north
    ELSE
        LET o == obstacles[i]
            hit == /\ ns[p].x >= ns[o[1]].x
                   /\ ns[p].x <= ns[o[2]].x
                   /\ ns[p].y > ns[o[3]].y
                   /\ ns[o[3]].y > north
        IN  NorthExtremity(ns, p, obstacles, i + 1,
                           IF hit THEN ns[o[3]].y ELSE north)

RECURSIVE SouthExtremity(_, _, _, _, _)
SouthExtremity(ns, p, obstacles, i, south) ==
    IF i > Len(obstacles) THEN south
    ELSE
        LET o == obstacles[i]
            hit == /\ ns[p].x >= ns[o[1]].x
                   /\ ns[p].x <= ns[o[2]].x
                   /\ ns[p].y < ns[o[1]].y
                   /\ ns[o[1]].y < south
        IN  SouthExtremity(ns, p, obstacles, i + 1,
                           IF hit THEN ns[o[1]].y ELSE south)

RECURSIVE EastExtremity(_, _, _, _, _)
EastExtremity(ns, p, obstacles, i, east) ==
    IF i > Len(obstacles) THEN east
    ELSE
        LET o == obstacles[i]
            hit == /\ ns[p].y >= ns[o[1]].y
                   /\ ns[p].y <= ns[o[3]].y
                   /\ ns[p].x < ns[o[1]].x
                   /\ ns[o[1]].x < east
        IN  EastExtremity(ns, p, obstacles, i + 1,
                          IF hit THEN ns[o[1]].x ELSE east)

RECURSIVE WestExtremity(_, _, _, _, _)
WestExtremity(ns, p, obstacles, i, west) ==
    IF i > Len(obstacles) THEN west
    ELSE
        LET o == obstacles[i]
            hit == /\ ns[p].y >= ns[o[1]].y
                   /\ ns[p].y <= ns[o[3]].y
                   /\ ns[p].x > ns[o[2]].x
                   /\ ns[o[2]].x > west
        IN  WestExtremity(ns, p, obstacles, i + 1,
                          IF hit THEN ns[o[2]].x ELSE west)

\* a ray's end: a new point linked both ways with p, and the segment
CastRay(st, p, key, back, px, py, vertical) ==
    LET q == Len(st.nodes) + 1
        ns == Append(SetNeighbour(st.nodes, p, key, q),
                     NewNeighbour(px, py, back, p))
    IN  IF vertical
        THEN [st EXCEPT !.nodes = ns, !.v = Append(st.v, <<p, q>>)]
        ELSE [st EXCEPT !.nodes = ns, !.h = Append(st.h, <<p, q>>)]

\* the point has no neighbour to the north and may have one: the nearest
\* edge above it is looked for, and the ray is cast to it
CastNorth(st, p, obstacles, area) ==
    IF NbGet(st.nodes[p].nb, "north") = 0 /\ ~st.nodes[p].horizontalOnly
    THEN CastRay(st, p, "north", "south", st.nodes[p].x,
                 NorthExtremity(st.nodes, p, obstacles, 1, area.y), TRUE)
    ELSE st

CastSouth(st, p, obstacles, area) ==
    IF NbGet(st.nodes[p].nb, "south") = 0 /\ ~st.nodes[p].horizontalOnly
    THEN CastRay(st, p, "south", "north", st.nodes[p].x,
                 SouthExtremity(st.nodes, p, obstacles, 1, area.y + area.h),
                 TRUE)
    ELSE st

CastEast(st, p, obstacles, area) ==
    IF NbGet(st.nodes[p].nb, "east") = 0 /\ ~st.nodes[p].verticalOnly
    THEN CastRay(st, p, "east", "west",
                 EastExtremity(st.nodes, p, obstacles, 1, area.x + area.w),
                 st.nodes[p].y, FALSE)
    ELSE st

CastWest(st, p, obstacles, area) ==
    IF NbGet(st.nodes[p].nb, "west") = 0 /\ ~st.nodes[p].verticalOnly
    THEN CastRay(st, p, "west", "east",
                 WestExtremity(st.nodes, p, obstacles, 1, area.x),
                 st.nodes[p].y, FALSE)
    ELSE st

\* the body of poi.forEach: if (!point.neighbours) point.neighbours = {},
\* then the four directions.  The extremities depend on the coordinates of
\* the point and of the corners only, which no ray changes.
CastRays(st, p, obstacles, area) ==
    CastWest(
        CastEast(
            CastSouth(
                CastNorth([st EXCEPT !.nodes[p].hasNb = TRUE],
                          p, obstacles, area),
                p, obstacles, area),
            p, obstacles, area),
        p, obstacles, area)

RECURSIVE CastAllRays(_, _, _, _)
CastAllRays(st, obstacles, area, k) ==
    IF k > Len(st.poi) THEN st
    ELSE CastAllRays(CastRays(st, st.poi[k], obstacles, area),
                     obstacles, area, k + 1)

\* returns [nodes, h, v, poi]
FindInterestingSegments(ns, connectors, obstacles, area) ==
    CastAllRays(
        WireObstacles([nodes |-> ns, poi |-> connectors, h |-> <<>>, v |-> <<>>],
                      obstacles, 1),
        obstacles, area, 1)

(***************************************************************************)
(* _intersectLineSegments and _intersectInterestingSegments                *)
(***************************************************************************)
\* [hit, x, y].  ua and ub are the quotients uaN / den and ubN / den; they
\* are compared with 0 and 1 through their numerators.  For a horizontal
\* and a vertical segment the products below are multiples of den.
IntersectLineSegments(ns, seg1, seg2) ==
    LET a1 == ns[seg1[1]]
        b1 == ns[seg1[2]]
        a2 == ns[seg2[1]]
        b2 == ns[seg2[2]]
        den == (b2.y - a2.y) * (b1.x - a1.x) - (b2.x - a2.x) * (b1.y - a1.y)
        uaN == (b2.x - a2.x) * (a1.y - a2.y) - (b2.y - a2.y) * (a1.x - a2.x)
        ubN == (b1.x - a1.x) * (a1.y - a2.y) - (b1.y - a1.y) * (a1.x - a2.x)
        Outside(n) == IF den > 0 THEN n < 0 \/ n > den ELSE n > 0 \/ n < den
        miss == [hit |-> FALSE, x |-> 0, y |-> 0]
    IN  IF (a1.x = b1.x /\ a1.y = b1.y) \/ (a2.x = b2.x /\ a2.y = b2.y)
        THEN miss
        ELSE IF den = 0 THEN miss
        ELSE IF Outside(uaN) \/ Outside(ubN) THEN miss
        ELSE [hit |-> TRUE,
              x |-> a1.x + (uaN * (b1.x - a1.x)) \div den,
              y |-> a1.y + (uaN * (b1.y - a1.y)) \div den]

MaxScanSteps == 4000

\* the splice of the h segment at the intersection, and its four links
SplitH(st, hSeg, inter) ==
    LET a == hSeg[1]
        b == hSeg[2]
        left == st.nodes[a].x < st.nodes[inter].x
        n1 == SetNeighbour(st.nodes, a, IF left THEN "east" ELSE "west", inter)
        n2 == SetNeighbour(n1, inter, IF left THEN "west" ELSE "east", a)
        n3 == SetNeighbour(n2, b, IF left THEN "west" ELSE "east", inter)
        n4 == SetNeighbour(n3, inter, IF left THEN "east" ELSE "west", b)
    IN  [st EXCEPT
            !.h = IF left
                  THEN Splice(st.h, st.hIndex, <<a, inter>>, <<inter, b>>)
                  ELSE Splice(st.h, st.hIndex, <<inter, b>>, <<a, inter>>),
            !.hIndex = st.hIndex - 1,
            !.nodes = n4]

\* the splice of the v segment at the intersection, and its four links
SplitV(st, vSeg, inter) ==
    LET a == vSeg[1]
        b == vSeg[2]
        below == st.nodes[a].y > st.nodes[inter].y
        n1 == SetNeighbour(st.nodes, a, IF below THEN "north" ELSE "south", inter)
        n2 == SetNeighbour(n1, inter, IF below THEN "south" ELSE "north", a)
        n3 == SetNeighbour(n2, b, IF below THEN "south" ELSE "north", inter)
        n4 == SetNeighbour(n3, inter, IF below THEN "north" ELSE "south", b)
    IN  [st EXCEPT
            !.v = IF below
                  THEN Splice(st.v, st.vIndex, <<inter, b>>, <<a, inter>>)
                  ELSE Splice(st.v, st.vIndex, <<a, inter>>, <<inter, b>>),
            !.vIndex = st.vIndex + 1,
            !.nodes = n4]

\* the intersection, made an end of hSeg when it is at one: the end, or 0
\* when the intersection stays a new object.  onA: it is at hSeg.a
SnapToEnd(ns, hSeg, cut, onA) ==
    IF ArePointsEqualXY(IF onA THEN ns[hSeg[1]].x ELSE cut.x,
                        IF onA THEN ns[hSeg[1]].y ELSE cut.y,
                        ns[hSeg[2]].x, ns[hSeg[2]].y)
    THEN hSeg[2]
    ELSE IF onA THEN hSeg[1]
    ELSE 0

\* intersection.neighbours = {}, on an end of hSeg or on the new object
ClearNeighbours(ns, cut, end) ==
    IF end = 0
    THEN Append(ns, [NewPoint(cut.x, cut.y, FALSE, FALSE) EXCEPT !.hasNb = TRUE])
    ELSE [ns EXCEPT ![end].hasNb = TRUE, ![end].nb = <<>>]

\* ovg.push(intersection)
PushIntersection(st, inter) ==
    [st EXCEPT !.ovg = Append(st.ovg, inter)]

\* both segments are split at the intersection
Cross(st, hSeg, vSeg, cut, end) ==
    PushIntersection(
        SplitV(SplitH([st EXCEPT !.nodes = ClearNeighbours(st.nodes, cut, end)],
                      hSeg, IF end = 0 THEN Len(st.nodes) + 1 ELSE end),
               vSeg, IF end = 0 THEN Len(st.nodes) + 1 ELSE end),
        IF end = 0 THEN Len(st.nodes) + 1 ELSE end)

\* if (intersection) { ... }
Meet(st, hSeg, vSeg, cut) ==
    IF ~cut.hit THEN st
    ELSE IF AreSegmentsConnected(st.nodes, hSeg, vSeg) THEN st
    ELSE Cross(st, hSeg, vSeg, cut,
               SnapToEnd(st.nodes, hSeg, cut,
                         ArePointsEqualXY(cut.x, cut.y, st.nodes[hSeg[1]].x,
                                          st.nodes[hSeg[1]].y)))

ScanSegments(st, hSeg, vSeg) ==
    Meet(st, hSeg, vSeg, IntersectLineSegments(st.nodes, hSeg, vSeg))

\* one pass of the inner loop's body, with hIndex and vIndex 0-based
ScanStep(st) ==
    ScanSegments(st, st.h[st.hIndex + 1], st.v[st.vIndex + 1])

\* vIndex++ of the inner loop
NextV(st, fuel) ==
    [st EXCEPT !.vIndex = st.vIndex + 1, !.fuel = fuel]

\* the inner loop; h[hIndex] is undefined once hIndex is -1, and reading
\* its end points is a TypeError
RECURSIVE ScanV(_)
ScanV(st) ==
    IF st.status # "ok" \/ st.vIndex >= Len(st.v) THEN st
    ELSE IF st.fuel = 0 THEN [st EXCEPT !.status = "diverged"]
    ELSE IF st.hIndex < 0 THEN [st EXCEPT !.status = "TypeError"]
    ELSE ScanV(NextV(ScanStep(st), st.fuel - 1))

\* hIndex++ of the outer loop
NextH(st) ==
    [st EXCEPT !.hIndex = st.hIndex + 1]

\* the outer loop
RECURSIVE ScanH(_)
ScanH(st) ==
    IF st.status # "ok" \/ st.hIndex >= Len(st.h) THEN st
    ELSE ScanH(NextH(ScanV([st EXCEPT !.vIndex = 0])))

\* returns [nodes, h, v, ovg, status, ...]
IntersectInterestingSegments(ns, hs, vs) ==
    ScanH([nodes |-> ns, h |-> hs, v |-> vs, ovg |-> <<>>,
           hIndex |-> 0, vIndex |-> 0, status |-> "ok",
           fuel |-> MaxScanSteps])

(***************************************************************************)
(* BinaryHeap (./binary-heap): a binary min-heap of point references in an *)
(* array, ordered by the score n.f.  content[1] is the root and the        *)
(* parent of content[i] is content[i \div 2].                              *)
(***************************************************************************)
Swap(content, i, j) ==
    [content EXCEPT ![i] = content[j], ![j] = content[i]]

\* move content[i] towards the root while its score is below its parent's
RECURSIVE BubbleUp(_, _, _)
BubbleUp(content, ns, i) ==
    IF i > 1 /\ ns[content[i]].f < ns[content[i \div 2]].f
    THEN BubbleUp(Swap(content, i, i \div 2), ns, i \div 2)
    ELSE content

\* move content[i] away from the root while a child's score is below its own
RECURSIVE SinkDown(_, _, _)
SinkDown(content, ns, i) ==
    LET l == 2 * i
        r == 2 * i + 1
        m1 == IF l <= Len(content) /\ ns[content[l]].f < ns[content[i]].f
              THEN l ELSE i
        m2 == IF r <= Len(content) /\ ns[content[r]].f < ns[content[m1]].f
              THEN r ELSE m1
    IN  IF m2 = i THEN content
        ELSE SinkDown(Swap(content, i, m2), ns, m2)

HeapPush(content, ns, n) ==
    BubbleUp(Append(content, n), ns, Len(content) + 1)

\* the heap that is left when the root has been taken
HeapPop(content, ns) ==
    IF Len(content) = 1 THEN <<>>
    ELSE SinkDown([Front(content) EXCEPT ![1] = Last(content)], ns, 1)

\* the score of n has gone down: restore the order from its place
BubbleUpElement(content, ns, n) ==
    IF \E i \in DOMAIN content : content[i] = n
    THEN BubbleUp(content, ns, CHOOSE i \in DOMAIN content : content[i] = n)
    ELSE content

(***************************************************************************)
(* findRoute                                                               *)
(***************************************************************************)
ManhattanHeuristic(ns, a, b) ==
    10 * (Abs(ns[b].x - ns[a].x) + Abs(ns[b].y - ns[a].y))

\* the squared length, and 0.1 (1 tenth) for a turn at current
EdgeWeight(ns, current, neighbour) ==
    LET dx == ns[current].x - ns[neighbour].x
        dy == ns[current].y - ns[neighbour].y
        turn == /\ ns[current].parent # 0
                /\ direction(ns, ns[current].parent, current)
                       # direction(ns, current, neighbour)
    IN  10 * (dx * dx + dy * dy) + (IF turn THEN 1 ELSE 0)

\* the path, end first, by the parent links
RECURSIVE ParentChain(_, _, _)
ParentChain(ns, n, left) ==
    IF ns[n].parent = 0 \/ left = 0 THEN <<n>>
    ELSE <<n>> \o ParentChain(ns, ns[n].parent, left - 1)

Reverse(s) == [i \in DOMAIN s |-> s[Len(s) + 1 - i]]

\* a variant that stops one parent short, and so leaves the start out
ReconstructWithoutStart(ns, endNode) ==
    Reverse(Front(ParentChain(ns, endNode, Len(ns))))

ReconstructAStarPath(ns, endNode) ==
    Reverse(ParentChain(ns, endNode, Len(ns)))

\* a variant of the reset that leaves closed as it is
RECURSIVE ResetDirtyButClosed(_, _)
ResetDirtyButClosed(ns, dirty) ==
    IF dirty = <<>> THEN ns
    ELSE ResetDirtyButClosed(
            [ns EXCEPT ![Last(dirty)].visited = FALSE,
                       ![Last(dirty)].parent = 0,
                       ![Last(dirty)].h = 0,
                       ![Last(dirty)].g = 0,
                       ![Last(dirty)].f = 0],
            Front(dirty))

\* the while loop that empties the dirty list
RECURSIVE ResetDirty(_, _)
ResetDirty(ns, dirty) ==
    IF dirty = <<>> THEN ns
    ELSE ResetDirty(
            [ns EXCEPT ![Last(dirty)].visited = FALSE,
                       ![Last(dirty)].closed = FALSE,
                       ![Last(dirty)].parent = 0,
                       ![Last(dirty)].h = 0,
                       ![Last(dirty)].g = 0,
                       ![Last(dirty)].f = 0],
            Front(dirty))

\* this._connectorPoints.find(p => _arePointsEqual(q, p)), q = {x, y}
RECURSIVE FindConnector(_, _, _, _, _)
FindConnector(ns, connectors, qx, qy, i) ==
    IF i > Len(connectors) THEN 0
    ELSE IF ArePointsEqualXY(qx, qy, ns[connectors[i]].x, ns[connectors[i]].y)
    THEN connectors[i]
    ELSE FindConnector(ns, connectors, qx, qy, i + 1)

\* an argument of findRoute is [ref, x, y]: a point object of the arena
\* (ref), or a new object {x, y} (ref = 0), which has no neighbours
Resolve(ns, connectors, arg) ==
    IF arg.ref # 0 /\ ns[arg.ref].hasNb THEN arg.ref
    ELSE IF arg.ref # 0
    THEN FindConnector(ns, connectors, ns[arg.ref].x, ns[arg.ref].y, 1)
    ELSE FindConnector(ns, connectors, arg.x, arg.y, 1)

\* a variant of the body that also enters connector points other than the end
RelaxThroughConnectors(st, currentNode, neighbour, end) ==
    LET ns == st.nodes
        previouslyVisited == ns[neighbour].visited
        tentativeG == ns[currentNode].g + EdgeWeight(ns, currentNode, neighbour)
        better == ~previouslyVisited \/ tentativeG < ns[neighbour].g
        hn == ManhattanHeuristic(ns, neighbour, end)
        ns1 == IF better
               THEN [ns EXCEPT ![neighbour].g = tentativeG,
                               ![neighbour].h = hn,
                               ![neighbour].f = tentativeG + hn,
                               ![neighbour].parent = currentNode,
                               ![neighbour].visited = TRUE]
               ELSE ns
    IN  IF ns[neighbour].closed THEN st
        ELSE [st EXCEPT
                !.nodes = ns1,
                !.dirty = IF better THEN Append(st.dirty, neighbour)
                          ELSE st.dirty,
                !.open = IF previouslyVisited
                         THEN BubbleUpElement(st.open, ns1, neighbour)
                         ELSE HeapPush(st.open, ns1, neighbour)]

\* the body of the loop over the neighbours of currentNode
Relax(st, currentNode, neighbour, end) ==
    LET ns == st.nodes
        skip == \/ ns[neighbour].closed
                \/ (ns[neighbour].isConnector /\ neighbour # end)
        previouslyVisited == ns[neighbour].visited
        tentativeG == ns[currentNode].g + EdgeWeight(ns, currentNode, neighbour)
        better == ~previouslyVisited \/ tentativeG < ns[neighbour].g
        hn == ManhattanHeuristic(ns, neighbour, end)
        ns1 == IF better
               THEN [ns EXCEPT ![neighbour].g = tentativeG,
                               ![neighbour].h = hn,
                               ![neighbour].f = tentativeG + hn,
                               ![neighbour].parent = currentNode,
                               ![neighbour].visited = TRUE]
               ELSE ns
    IN  IF skip THEN st
        ELSE [st EXCEPT
                !.nodes = ns1,
                !.dirty = IF better THEN Append(st.dirty, neighbour)
                          ELSE st.dirty,
                !.open = IF previouslyVisited
                         THEN BubbleUpElement(st.open, ns1, neighbour)
                         ELSE HeapPush(st.open, ns1, neighbour)]

RECURSIVE RelaxAll(_, _, _, _, _)
RelaxAll(st, currentNode, entries, end, i) ==
    IF i > Len(entries) THEN st
    ELSE RelaxAll(Relax(st, currentNode, entries[i][2], end),
                  currentNode, entries, end, i + 1)

MaxSearchSteps == 200

\* a variant of the loop that raises an error when the open set runs out
RECURSIVE SearchRaising(_, _)
SearchRaising(st, end) ==
    IF st.open = <<>> THEN [st EXCEPT !.status = "throw"]
    ELSE IF st.fuel = 0 THEN [st EXCEPT !.status = "diverged"]
    ELSE
        LET currentNode == st.open[1]
            rest == HeapPop(st.open, st.nodes)
            closed == [st.nodes EXCEPT ![currentNode].closed = TRUE]
        IN  IF currentNode = end
            THEN [st EXCEPT !.open = rest, !.status = "route",
                            !.path = ReconstructAStarPath(st.nodes, end)]
            ELSE SearchRaising(
                    RelaxAll([st EXCEPT !.open = rest, !.nodes = closed,
                                        !.fuel = st.fuel - 1],
                             currentNode, st.nodes[currentNode].nb, end, 1),
                    end)

\* while (openNodes.size() > 0)
RECURSIVE Search(_, _)
Search(st, end) ==
    IF st.open = <<>> THEN [st EXCEPT !.status = "noroute"]
    ELSE IF st.fuel = 0 THEN [st EXCEPT !.status = "diverged"]
    ELSE
        LET currentNode == st.open[1]
            rest == HeapPop(st.open, st.nodes)
            closed == [st.nodes EXCEPT ![currentNode].closed = TRUE]
        IN  IF currentNode = end
            THEN [st EXCEPT !.open = rest, !.status = "route",
                            !.path = ReconstructAStarPath(st.nodes, end)]
            ELSE Search(
                    RelaxAll([st EXCEPT !.open = rest, !.nodes = closed,
                                        !.fuel = st.fuel - 1],
                             currentNode, st.nodes[currentNode].nb, end, 1),
                    end)

\* what findRoute leaves when the loop has ended
Outcome(st, start, end) ==
    [nodes |-> st.nodes, dirty |-> st.dirty, status |-> st.status,
     path |-> st.path, start |-> start, end |-> end]

\* the check of the resolved start and end, and the search from the start
RouteBetween(ns, start, end) ==
    IF \/ end = 0 \/ start = 0
       \/ ~ns[end].hasNb \/ ~ns[start].hasNb
    THEN [nodes |-> ns, dirty |-> <<>>, status |-> "throw",
          path |-> <<>>, start |-> start, end |-> end]
    ELSE Outcome(
            Search([nodes |-> [ns EXCEPT
                                  ![start].g = 0,
                                  ![start].h = ManhattanHeuristic(ns, start, end)],
                    open |-> <<start>>, dirty |-> <<start>>,
                    status |-> "searching", path |-> <<>>,
                    fuel |-> MaxSearchSteps], end),
            start, end)

RouteFrom(ns, connectors, startArg, endArg) ==
    RouteBetween(ns, Resolve(ns, connectors, startArg),
                 Resolve(ns, connectors, endArg))

\* returns [nodes, dirty, status, path, start, end]; status is "route",
\* "noroute" (false is returned), "throw" or "diverged"
FindRoute(ns0, connectors, dirty0, startArg, endArg) ==
    RouteFrom(ResetDirty(ns0, dirty0), connectors, startArg, endArg)

(***************************************************************************)
(* _performPathShift (table-layout.js).  A path is a sequence of points    *)
(* [x, y]; the loop changes the points in place, so each pass reads what   *)
(* the passes before it left.  i is the 0-based index of the loop.         *)
(***************************************************************************)
\* point.x += translation.x or point.y += translation.y, along the axis the
\* point shares with the point at fixedIndex; point is path[i]
ShiftAlong(path, translation, i, fixedIndex) ==
    IF path[i + 1].x = path[fixedIndex + 1].x
    THEN [path EXCEPT ![i + 1].y = @ + translation.y]
    ELSE IF path[i + 1].y = path[fixedIndex + 1].y
    THEN [path EXCEPT ![i + 1].x = @ + translation.x]
    ELSE path

\* if (i == 1) { ... }
ShiftSecond(path, translation, i) ==
    IF i = 1 THEN ShiftAlong(path, translation, i, 0) ELSE path

\* if (i == path.length - 2) { ... }
ShiftSecondToLast(path, translation, i) ==
    IF i = Len(path) - 2
    THEN ShiftAlong(path, translation, i, Len(path) - 1)
    ELSE path

\* if (i > 1 && i < path.length - 2) { ... }
ShiftInterior(path, translation, i) ==
    IF i > 1 /\ i < Len(path) - 2
    THEN [path EXCEPT ![i + 1].x = @ + translation.x,
                      ![i + 1].y = @ + translation.y]
    ELSE path

\* the for loop from index i on
RECURSIVE ShiftFrom(_, _, _)
ShiftFrom(path, translation, i) ==
    IF i >= Len(path) THEN path
    ELSE ShiftFrom(
            ShiftInterior(
                ShiftSecondToLast(ShiftSecond(path, translation, i),
                                  translation, i),
                translation, i),
            translation, i + 1)

\* the path as the loop leaves it
PerformPathShift(path, translation) == ShiftFrom(path, translation, 0)

(***************************************************************************)
(* The router and its caller                                               *)
(***************************************************************************)
AreaSize == 5

\* the area the caller confines the paths to: {x: 0, y: 0, w, h}
Area == [x |-> 0, y |-> 0, w |-> AreaSize, h |-> AreaSize]

\* the corner objects tl, tr, bl, br of a rectangle <<x0, y0, x1, y1>>
Corners(r) ==
    << NewPoint(r[1], r[2], FALSE, FALSE), NewPoint(r[3], r[2], FALSE, FALSE),
       NewPoint(r[1], r[4], FALSE, FALSE), NewPoint(r[3], r[4], FALSE, FALSE) >>

RECURSIVE AllCorners(_)
AllCorners(rects) ==
    IF rects = <<>> THEN <<>>
    ELSE Corners(rects[1]) \o AllCorners(Tail(rects))

\* what generateOrthogonalGraph leaves: [nodes, h, v, poi, ovg, status].
\* this._h and this._v are assigned before the scan, which changes them in
\* place; this._poi and this._ovg are assigned after it, if it returns.
Generated(found, cut, poi0, ovg0) ==
    [nodes |-> cut.nodes, h |-> cut.h, v |-> cut.v,
     poi |-> IF cut.status = "ok" THEN found.poi ELSE poi0,
     ovg |-> IF cut.status = "ok" THEN cut.ovg ELSE ovg0,
     status |-> cut.status]

Intersected(found, poi0, ovg0) ==
    Generated(found,
              IntersectInterestingSegments(found.nodes, found.h, found.v),
              poi0, ovg0)

GenerateOrthogonalGraph(ns, connectors, obstacles, area, poi0, ovg0) ==
    Intersected(FindInterestingSegments(ns, connectors, obstacles, area),
                poi0, ovg0)

\* the coordinates of segments and of a path
SegCoords(ns, segs) ==
    [i \in DOMAIN segs |->
        <<ns[segs[i][1]].x, ns[segs[i][1]].y, ns[segs[i][2]].x, ns[segs[i][2]].y>>]

PathCoords(ns, path) ==
    [i \in DOMAIN path |-> <<ns[path[i]].x, ns[path[i]].y>>]

\* the points of the graph: the points of interest and the ends of the
\* segments of h and v
GraphNodes(ps, hs, vs) ==
    Range(ps) \cup {hs[i][k] : i \in DOMAIN hs, k \in {1, 2}}
              \cup {vs[i][k] : i \in DOMAIN vs, k \in {1, 2}}

\* the graph by coordinates: h, v, and every link <<x, y, key, x', y'>>
Snapshot(ns, ps, hs, vs) ==
    [h |-> SegCoords(ns, hs), v |-> SegCoords(ns, vs),
     adj |-> {<<ns[p].x, ns[p].y, ns[p].nb[i][1],
                ns[ns[p].nb[i][2]].x, ns[ns[p].nb[i][2]].y>> :
                    <<p, i>> \in {<<q, j>> \in GraphNodes(ps, hs, vs) \X (1..4) :
                                    j \in DOMAIN ns[q].nb}}]

(***************************************************************************)
(* What the caller passes.  A layout is the caller's tables (rectangles    *)
(* <<x0, y0, x1, y1>>) and its connector points (<<x, y, horizontalOnly>>),*)
(* of which the first two are the ends of the link; every call makes new   *)
(* point objects from it, as _computeLinkPoints does.                      *)
(***************************************************************************)
ObstacleInputs ==
    { <<>>, << <<1, 2, 4, 3>> >>, << <<2, 1, 4, 3>> >> }

ConnectorPlaces ==
    { << <<3, 4>>, <<1, 1>> >>, << <<0, 0>>, <<3, 0>> >>,
      << <<3, 2>>, <<1, 4>> >>, << <<1, 2>>, <<4, 2>> >>,
      << <<0, 4>>, <<4, 0>> >>, << <<2, 0>>, <<2, 4>> >>,
      << <<0, 0>>, <<0, 4>>, <<2, 2>> >> }

\* the connector points of a layout, all plain or all horizontalOnly
ConnectorInputs ==
    { [i \in DOMAIN pq |-> <<pq[i][1], pq[i][2], ho>>] :
        <<pq, ho>> \in ConnectorPlaces \X BOOLEAN }

MaxGenerate == 2
MaxFindRoute == 2

Init ==
    /\ nodes = <<>>
    /\ obstacleCorners = <<>>
    /\ connectorPoints = <<>>
    /\ h = <<>>
    /\ v = <<>>
    /\ poi = <<>>
    /\ ovg = <<>>
    /\ dirtyAStarNodes = <<>>
    /\ last = [op |-> "new", status |-> "ok", path |-> <<>>, start |-> 0,
               end |-> 0, args |-> <<>>, before |-> <<>>, points |-> <<>>,
               reset |-> <<>>]
    /\ hist = [setO |-> FALSE, setC |-> FALSE, graph |-> "none",
               stale |-> FALSE, gens |-> 0, finds |-> 0]
    /\ layout \in [obstacles : ObstacleInputs, connectors : ConnectorInputs]

Returned(op) ==
    [op |-> op, status |-> "ok", path |-> <<>>, start |-> 0, end |-> 0,
     args |-> <<>>, before |-> <<>>, points |-> <<>>, reset |-> <<>>]

\* the caller may set the obstacles or the connector points again once a
\* graph has been generated, and then generates again before it sets more
MaySetAgain ==
    /\ hist.setO /\ hist.setC
    /\ hist.graph # "none"
    /\ ~hist.stale

SetObstacles(rects) ==
    /\ (~hist.setO /\ ~hist.setC) \/ MaySetAgain
    /\ nodes' = nodes \o AllCorners(rects)
    /\ obstacleCorners' =
            [i \in DOMAIN rects |->
                <<Len(nodes) + 4 * i - 3, Len(nodes) + 4 * i - 2,
                  Len(nodes) + 4 * i - 1, Len(nodes) + 4 * i>>]
    /\ last' = Returned("setObstacles")
    /\ hist' = [hist EXCEPT !.setO = TRUE, !.stale = hist.graph # "none"]
    /\ UNCHANGED <<connectorPoints, h, v, poi, ovg, dirtyAStarNodes, layout>>

SetConnectorPoints(points) ==
    /\ (hist.setO /\ ~hist.setC) \/ MaySetAgain
    /\ nodes' = nodes \o
            [i \in DOMAIN points |->
                [NewPoint(points[i][1], points[i][2], points[i][3], FALSE)
                    EXCEPT !.isConnector = TRUE]]
    /\ connectorPoints' = [i \in DOMAIN points |-> Len(nodes) + i]
    /\ last' = Returned("setConnectorPoints")
    /\ hist' = [hist EXCEPT !.setC = TRUE, !.stale = hist.graph # "none"]
    /\ UNCHANGED <<obstacleCorners, h, v, poi, ovg, dirtyAStarNodes, layout>>

\* the router and the caller's record after generateOrthogonalGraph left g
AfterGenerate(g) ==
    /\ nodes' = g.nodes
    /\ h' = g.h
    /\ v' = g.v
    /\ poi' = g.poi
    /\ ovg' = g.ovg
    /\ last' = [Returned("generateOrthogonalGraph") EXCEPT
                   !.status = g.status,
                   !.before =
                       IF last.op = "generateOrthogonalGraph"
                             /\ last.status = "ok"
                       THEN <<Snapshot(nodes, poi, h, v)>>
                       ELSE <<>>]
    /\ hist' = [hist EXCEPT
                   !.graph = IF g.status = "ok" THEN "ok" ELSE "failed",
                   !.stale = FALSE,
                   !.gens = @ + 1]

\* the caller generates the graph once the connector points are set
Generate ==
    /\ hist.setC
    /\ hist.gens < MaxGenerate
    /\ AfterGenerate(GenerateOrthogonalGraph(nodes, connectorPoints,
                                             obstacleCorners, Area, poi, ovg))
    /\ UNCHANGED <<obstacleCorners, connectorPoints, dirtyAStarNodes, layout>>

\* a new object {x, y}, and a point object the caller holds
Bare(px, py) == [ref |-> 0, x |-> px, y |-> py]

Ref(p) == [ref |-> p, x |-> 0, y |-> 0]

\* a place where no link of a layout ends
Elsewhere == Bare(4, 1)

\* the arguments the caller tries: the two ends of the link either way
\* round, a place where no link ends, and the top left corner object of a
\* table
RouteArgs ==
    LET c == layout.connectors
        a == Bare(c[1][1], c[1][2])
        b == Bare(c[2][1], c[2][2])
    IN  { <<a, b>>, <<b, a>>, <<Elsewhere, a>> }
            \cup { <<Ref(obstacleCorners[i][1]), a>> : i \in DOMAIN obstacleCorners }

\* the router and the caller's record after findRoute(args) ended as r
AfterFindRoute(r, args) ==
    /\ nodes' = r.nodes
    /\ dirtyAStarNodes' = r.dirty
    /\ last' = [Returned("findRoute") EXCEPT
                   !.status = r.status, !.path = r.path,
                   !.start = r.start, !.end = r.end, !.args = args,
                   !.reset = dirtyAStarNodes]

FindRouteCall(args) ==
    /\ hist.setC
    /\ hist.finds < MaxFindRoute
    /\ AfterFindRoute(FindRoute(nodes, connectorPoints, dirtyAStarNodes,
                                args[1], args[2]), args)
    /\ hist' = [hist EXCEPT !.finds = @ + 1]
    /\ UNCHANGED <<obstacleCorners, connectorPoints, h, v, poi, ovg, layout>>

\* the amount a link's path is shifted by, in x and in y
pathShift == 3

\* pathShiftAmount when the path of the link routed last is shifted: it is
\* 0 for the first link and grows by pathShift with every link routed
PathShiftAmount == pathShift * (hist.finds - 1)

\* route.map(p => ({ x: p.x, y: p.y }))
CleanPoints(ns, route) ==
    [i \in DOMAIN route |-> [x |-> ns[route[i]].x, y |-> ns[route[i]].y]]

\* link.points after what findRoute returned has been copied and shifted;
\* false has no map, and calling it is a TypeError
ShiftedLink(translation) ==
    IF last.status = "route"
    THEN [last EXCEPT !.op = "performPathShift", !.status = "ok",
                      !.points = PerformPathShift(CleanPoints(nodes, last.path),
                                                  translation)]
    ELSE [last EXCEPT !.op = "performPathShift", !.status = "TypeError"]

\* the rest of the body of links.forEach in _computeLinkPoints, after
\* findRoute has returned for the two ends of the link
ShiftLinkPoints ==
    /\ last.op = "findRoute"
    /\ last.status \in {"route", "noroute"}
    /\ last.args[1].ref = 0 /\ last.args[2].ref = 0
    /\ last' = ShiftedLink([x |-> PathShiftAmount, y |-> PathShiftAmount])
    /\ UNCHANGED <<nodes, obstacleCorners, connectorPoints, h, v, poi, ovg,
                   dirtyAStarNodes, hist, layout>>

Next ==
    \/ SetObstacles(IF hist.setO THEN <<>> ELSE layout.obstacles)
    \/ SetConnectorPoints(layout.connectors)
    \/ Generate
    \/ \E args \in RouteArgs : FindRouteCall(args)
    \/ ShiftLinkPoints

Spec == Init /\ [][Next]_vars

(***************************************************************************)
(* Properties                                                              *)
(***************************************************************************)
RouteReturned == last.op = "findRoute" /\ last.status = "route"

GraphGenerated == last.op = "generateOrthogonalGraph" /\ last.status = "ok"

\* where an argument of findRoute is
ArgPlace(arg) ==
    IF arg.ref # 0 THEN <<nodes[arg.ref].x, nodes[arg.ref].y>>
    ELSE <<arg.x, arg.y>>

Place(p) == <<nodes[p].x, nodes[p].y>>

\* a connector point of the router is at the place of the argument
AmongConnectors(arg) ==
    \E i \in DOMAIN connectorPoints : Place(connectorPoints[i]) = ArgPlace(arg)

\* C1: a route that findRoute returns starts at the start connector that
\* was asked for and ends at the end connector that was asked for.
C1_RouteJoinsStartAndEnd ==
    RouteReturned =>
        /\ last.path # <<>>
        /\ last.path[1] = last.start
        /\ Last(last.path) = last.end
        /\ Place(last.path[1]) = ArgPlace(last.args[1])
        /\ Place(Last(last.path)) = ArgPlace(last.args[2])

\* a route of several hops between the two connectors of the layout
C1_Witness ==
    /\ RouteReturned
    /\ hist.graph = "ok"
    /\ last.args[1].ref = 0
    /\ nodes[last.start].isConnector /\ nodes[last.end].isConnector
    /\ Len(last.path) >= 4

\* hop i of the returned route, as <<dx, dy>>
Hop(i) ==
    <<nodes[last.path[i + 1]].x - nodes[last.path[i]].x,
      nodes[last.path[i + 1]].y - nodes[last.path[i]].y>>

Horizontal(d) == d[1] # 0 /\ d[2] = 0

Vertical(d) == d[1] = 0 /\ d[2] # 0

\* C2: every hop of a returned route is strictly horizontal or strictly
\* vertical (not diagonal, not of length zero), and two consecutive hops
\* never have the same orientation.
C2_RouteAlternates ==
    RouteReturned =>
        /\ \A i \in 1..(Len(last.path) - 1) :
                Horizontal(Hop(i)) \/ Vertical(Hop(i))
        /\ \A i \in 1..(Len(last.path) - 2) :
                Horizontal(Hop(i)) # Horizontal(Hop(i + 1))

Min(a, b) == IF a < b THEN a ELSE b

Max(a, b) == IF a > b THEN a ELSE b

\* a segment <<x1, y1, x2, y2>> of positive length has a point in the open
\* interior of the rectangle with corners tl and br
Crosses(seg, tl, br) ==
    \/ /\ seg[2] = seg[4] /\ seg[1] # seg[3]
       /\ tl.y < seg[2] /\ seg[2] < br.y
       /\ Min(seg[1], seg[3]) < br.x /\ Max(seg[1], seg[3]) > tl.x
    \/ /\ seg[1] = seg[3] /\ seg[2] # seg[4]
       /\ tl.x < seg[1] /\ seg[1] < br.x
       /\ Min(seg[2], seg[4]) < br.y /\ Max(seg[2], seg[4]) > tl.y

\* C3: no segment of h or v of a generated graph passes through the open
\* interior of an obstacle, whatever obstacles and connectors inside the
\* area were set.
C3_NoSegmentCrossesObstacle ==
    GraphGenerated =>
        \A seg \in Range(SegCoords(nodes, h)) \cup Range(SegCoords(nodes, v)) :
            \A i \in DOMAIN obstacleCorners :
                ~Crosses(seg, nodes[obstacleCorners[i][1]],
                         nodes[obstacleCorners[i][4]])

\* the cost of a path: ten times the squared length of each hop, and 1
\* (0.1) for each turn
RECURSIVE PathCost(_, _)
PathCost(ns, path) ==
    IF Len(path) < 2 THEN 0
    ELSE LET n == Len(path)
             a == path[n - 1]
             b == path[n]
             dx == ns[a].x - ns[b].x
             dy == ns[a].y - ns[b].y
             turn == n > 2 /\ direction(ns, path[n - 2], a) # direction(ns, a, b)
         IN  PathCost(ns, Front(path)) + 10 * (dx * dx + dy * dy)
                + (IF turn THEN 1 ELSE 0)

\* the walks from a start that cost less than bound, as <<node, <<direction
\* of the last hop>>, cost>> (<<>> for the direction at the start): a walk
\* follows neighbour links and passes through no connector but the end
RECURSIVE Walks(_, _, _, _)
Walks(ns, reached, end, bound) ==
    LET more ==
            { <<ns[t[1]].nb[i][2],
                <<direction(ns, t[1], ns[t[1]].nb[i][2])>>,
                t[3] + 10 * ((ns[t[1]].x - ns[ns[t[1]].nb[i][2]].x)
                                * (ns[t[1]].x - ns[ns[t[1]].nb[i][2]].x)
                             + (ns[t[1]].y - ns[ns[t[1]].nb[i][2]].y)
                                * (ns[t[1]].y - ns[ns[t[1]].nb[i][2]].y))
                     + (IF t[2] # <<>>
                            /\ t[2] # <<direction(ns, t[1], ns[t[1]].nb[i][2])>>
                        THEN 1 ELSE 0)>> :
              <<t, i>> \in { ti \in reached \X (1..4) :
                               /\ ti[1][1] # end
                               /\ ti[2] \in DOMAIN ns[ti[1][1]].nb } }
        next == reached \cup
                    { t \in more : /\ t[3] < bound
                                   /\ (ns[t[1]].isConnector => t[1] = end) }
    IN  IF next = reached THEN reached ELSE Walks(ns, next, end, bound)

\* C4: a returned route has the least cost of all the routes of the graph
\* from the start to the end, the cost being the sum of the squared hop
\* lengths and of 0.1 per turn.
C4_RouteIsCheapest ==
    RouteReturned =>
        ~ \E t \in Walks(nodes, {<<last.start, <<>>, 0>>}, last.end,
                         PathCost(nodes, last.path)) : t[1] = last.end

\* C5: findRoute raises the configuration error when no graph has been
\* generated, and when its start or its end is not among the connector
\* points of the router.
C5_ErrorWithoutGraphOrConnector ==
    (/\ last.op = "findRoute"
     /\ \/ hist.gens = 0
        \/ ~AmongConnectors(last.args[1])
        \/ ~AmongConnectors(last.args[2]))
        => last.status = "throw"

\* C6: findRoute comes to an end, and when its start and end are nodes of
\* the graph it returns a route or, the open set having run out before the
\* end was reached, false: it raises no error then.
C6_SearchEndsWithRouteOrFalse ==
    last.op = "findRoute" =>
        /\ last.status \in {"route", "noroute", "throw"}
        /\ (/\ last.start # 0 /\ last.end # 0
            /\ nodes[last.start].hasNb /\ nodes[last.end].hasNb)
                => /\ last.status \in {"route", "noroute"}
                   /\ last.status = "noroute" => ~nodes[last.end].visited
        /\ last.status = "route" =>
                /\ nodes[last.path[1]].parent = 0
                /\ \A i \in 2..Len(last.path) :
                        nodes[last.path[i]].parent = last.path[i - 1]

\* false is returned after a search that went over several nodes
C6_Witness ==
    /\ last.op = "findRoute"
    /\ last.status = "noroute"
    /\ hist.graph = "ok"
    /\ Len(dirtyAStarNodes) >= 3

\* C7: after setObstacles or setConnectorPoints, findRoute returns no route
\* from the graph generated before, until the graph is generated again.
C7_SettingInvalidatesGraph ==
    (last.op = "findRoute" /\ hist.stale) => last.status # "route"

\* C8: generateOrthogonalGraph called a second time, with nothing set in
\* between, leaves the same graph: the same h and v by coordinates and the
\* same links between the same places.
C8_GenerateTwiceSameGraph ==
    (GraphGenerated /\ last.before # <<>>) =>
        Snapshot(nodes, poi, h, v) = last.before[1]

Opposite(key) ==
    CASE key = "north" -> "south"
      [] key = "south" -> "north"
      [] key = "east" -> "west"
      [] key = "west" -> "east"

\* C9: in a generated graph, when b is the neighbour of a in a direction,
\* a is the neighbour of b in the opposite direction.
C9_AdjacencySymmetric ==
    GraphGenerated =>
        \A a \in GraphNodes(poi, h, v) :
            \A i \in DOMAIN nodes[a].nb :
                NbGet(nodes[nodes[a].nb[i][2]].nb, Opposite(nodes[a].nb[i][1])) = a

\* C10: in a generated graph, a connector point that is horizontalOnly has
\* no north neighbour and no south neighbour.
C10_HorizontalOnlyHasNoVerticalNeighbour ==
    GraphGenerated =>
        \A i \in DOMAIN connectorPoints :
            nodes[connectorPoints[i]].horizontalOnly =>
                /\ NbGet(nodes[connectorPoints[i]].nb, "north") = 0
                /\ NbGet(nodes[connectorPoints[i]].nb, "south") = 0

\* the last call was findRoute between the two ends of the link, given as
\* new objects, on a graph generated from what is set now
RoutedOnFreshGraph ==
    /\ last.op = "findRoute"
    /\ hist.graph = "ok" /\ ~hist.stale
    /\ last.args[1].ref = 0 /\ last.args[2].ref = 0
    /\ AmongConnectors(last.args[1]) /\ AmongConnectors(last.args[2])

\* C11: with no obstacles and two connector points on the same y inside the
\* area, findRoute between them returns the route of exactly the two
\* points, the start and the end.
C11_SameRowRouteIsDirect ==
    (/\ RoutedOnFreshGraph
     /\ obstacleCorners = <<>>
     /\ ArgPlace(last.args[1])[2] = ArgPlace(last.args[2])[2]
     /\ ArgPlace(last.args[1])[1] # ArgPlace(last.args[2])[1])
        => /\ last.status = "route"
           /\ PathCoords(nodes, last.path)
                = <<ArgPlace(last.args[1]), ArgPlace(last.args[2])>>

PathShifted == last.op = "performPathShift" /\ last.status = "ok"

\* C12: the points stored for a link keep their first point at the source
\* connector and their last point at the target connector: the path shift
\* moves neither, whatever the length of the path and the translation.
C12_PathShiftKeepsEnds ==
    PathShifted =>
        /\ last.points[1] = [x |-> nodes[last.start].x, y |-> nodes[last.start].y]
        /\ Last(last.points) = [x |-> nodes[last.end].x, y |-> nodes[last.end].y]

\* two points share an x or a y
Aligned(p, q) == p.x = q.x \/ p.y = q.y

Orthogonal(points) ==
    \A i \in 1..(Len(points) - 1) : Aligned(points[i], points[i + 1])

\* C16: the path shift keeps a path orthogonal: when every two consecutive
\* points of the route share an x or a y, every two consecutive points of
\* the shifted path still do.
C16_PathShiftKeepsOrthogonal ==
    (PathShifted /\ Orthogonal(CleanPoints(nodes, last.path)))
        => Orthogonal(last.points)

\* C13: generateOrthogonalGraph completes normally whatever obstacles and
\* connector points were set: the scan of h against v reads a segment of h
\* and a segment of v at every step and comes to an end without an error.
C13_GenerateCompletes ==
    last.op = "generateOrthogonalGraph" => last.status = "ok"

\* a point carries a value of a search
Touched(n) ==
    \/ n.visited \/ n.closed \/ n.parent # 0
    \/ n.g # 0 \/ n.h # 0 \/ n.f # 0

\* C14: when a search begins no point carries visited, closed, parent, g, h
\* or f of an earlier search: every point a search has touched is on the
\* dirty list, and the reset at the head of findRoute clears the points of
\* the dirty list, also when the call then raises the configuration error.
C14_NoScratchStateLeaks ==
    /\ \A n \in DOMAIN nodes :
            Touched(nodes[n]) => n \in Range(dirtyAStarNodes)
    /\ LET clean == ResetDirty(nodes, dirtyAStarNodes)
       IN  \A n \in DOMAIN clean : ~Touched(clean[n])
    /\ last.op = "findRoute" =>
            \A n \in Range(last.reset) \ Range(dirtyAStarNodes) :
                ~Touched(nodes[n])

\* a second search has returned a route on the graph of a first one, and a
\* point the first search had touched was not touched again
C14_Witness ==
    /\ last.op = "findRoute" /\ last.status = "route"
    /\ hist.gens = 1
    /\ Len(last.reset) >= 3
    /\ \E n \in Range(last.reset) : n \notin Range(dirtyAStarNodes)

\* C15: a returned route passes through no connector point but its own
\* start and end: every point of the route between its first and its last
\* is a point of the graph that is no connector point.
C15_RouteAvoidsOtherConnectors ==
    RouteReturned =>
        \A i \in 2..(Len(last.path) - 1) :
            /\ ~nodes[last.path[i]].isConnector
            /\ last.path[i] \notin Range(connectorPoints)

\* a route has been returned by a search that came to a neighbour of a
\* third connector point, which it did not enter
C15_Witness ==
    /\ RouteReturned
    /\ nodes[last.start].isConnector /\ nodes[last.end].isConnector
    /\ Len(last.path) >= 3
    /\ \E k \in DOMAIN connectorPoints :
           /\ connectorPoints[k] \notin {last.start, last.end}
           /\ \E n \in DOMAIN nodes :
                  /\ nodes[n].closed
                  /\ \E i \in DOMAIN nodes[n].nb :
                         nodes[n].nb[i][2] = connectorPoints[k]

=============================================================================
